---- MODULE Spec2Model ----
(***************************************************************************)
(* The quiz attempt of the App component (startQuiz, the timer effect,     *)
(* answer selection, submitQuiz, Quit) together with the collections of    *)
(* the store it writes to.                                                 *)
(*                                                                         *)
(* Every await of the source splits its handler in two steps: the part     *)
(* before the await runs with the state captured by the closure of the     *)
(* render in which the handler was created, the continuation runs when the *)
(* store answers.  In-flight requests are kept in pendingStarts and        *)
(* pendingWrites.  A render and the effects it schedules are one step.     *)
(*                                                                         *)
(* The model follows the first attempt of a run of the App: from the       *)
(* landing view to the Start Quiz click that passes the name check, and    *)
(* from there to the end of that attempt.  getLeaderboard and the          *)
(* gamification helpers of the student dashboard (calculateStreak,         *)
(* hasGrammarMaster, isTop3) are followed on snapshots of the results      *)
(* collection, each under a specification of its own.                      *)
(***************************************************************************)
EXTENDS Integers, Sequences, FiniteSets

VARIABLES
    view,             \* useState<View>
    quizzes,          \* useState<Quiz[]>: ids of the quizzes the store delivered
    activeQuiz,       \* useState<Quiz | null>: NoQuiz or a quiz document
    studentName,      \* useState(""): sequence of characters
    answers,          \* useState<number[]>
    currentResult,    \* useState<Result | null>: NoResult or a Result
    timeLeft,         \* useState(0)
    toast,            \* useState<{message, type} | null>: NoToast or the message
    savedName,        \* localStorage item "studentName"
    pendingStarts,    \* startQuiz calls suspended in await updateDoc
    pendingWrites,    \* submitQuiz calls suspended in await addDoc
    resultsCollection,\* documents of the "results" collection
    quizStarts,       \* field starts of the documents of "quizzes"
    now,              \* the last value read from Date.now()
    nextId,           \* source of document ids (docRef.id)
    session,          \* history: 1 once the continuation of startQuiz has run
    cancelled,        \* history: the attempt was quit through the Header's onBack
    sessionT0,        \* history: remaining time set when the attempt began
    ticks,            \* history: firings of the interval during the attempt
    manualClicks,     \* history: clicks on the Submit Quiz button
    scoreInput,       \* the quiz and the answers handed to the scoring loop
    scoreOutput,      \* <<>>, or <<score>> once the loop has run
    allResults,       \* the Result[] handed to getLeaderboard and the gamification helpers
    leaderboardQuiz,  \* <<>>, or <<quizId>> of the leaderboard rendered
    leaderboard,      \* <<>>, or <<rows>> once getLeaderboard has run
    timeZone,         \* the local time zone of the Date objects
    gamification,     \* <<>>, or <<[streak, hasMaster, hasAnyTop3]>> of the dashboard
    showAuth,         \* useState(false): the password dialog of the landing view
    isAuthenticated,  \* useState(false)
    isGenerating,     \* useState(false)
    generatedQuiz,    \* useState<Quiz | null>: NoQuiz or the quiz under review
    prompt,           \* useState(""): sequence of characters
    file,             \* useState<File | null>: TRUE when a file is chosen
    noteTitle,        \* useState(""): sequence of characters
    noteFile,         \* useState<File | null>: TRUE when a file is chosen
    pendingCalls,     \* teacher's calls suspended in an await
    nextCall,         \* history: number of the next such call
    quizzesCollection,\* documents publishQuiz added to the "quizzes" collection
    notesCollection,  \* documents handleUploadNote added to the "notes" collection
    crashed           \* TRUE once a render has thrown and React has unmounted the App

vars == <<view, quizzes, activeQuiz, studentName, answers, currentResult, timeLeft,
          toast, savedName, pendingStarts, pendingWrites, resultsCollection,
          quizStarts, now, nextId, session, cancelled, sessionT0, ticks,
          manualClicks, scoreInput, scoreOutput, allResults, leaderboardQuiz,
          leaderboard, timeZone, gamification, showAuth, isAuthenticated,
          isGenerating, generatedQuiz, prompt, file, noteTitle, noteFile,
          pendingCalls, nextCall, quizzesCollection, notesCollection, crashed>>

----------------------------------------------------------------------------
(* Bounds *)

MaxManualClicks == 1    \* clicks on Submit Quiz
MaxClock == 0           \* values of Date.now() are 0..MaxClock
MaxQuestions == 3       \* questions of a quiz handed to the scoring loop
MaxOption == 2          \* option indices of such a quiz are 0..MaxOption
MaxResults == 3         \* Results of a snapshot handed to getLeaderboard
MaxDate == 1            \* the dates of those Results are 0..MaxDate
MaxDay == 4             \* the calendar days of a Result history are 0..MaxDay
MaxHistory == 4         \* Results of a history handed to calculateStreak
MaxStarts == 2          \* clicks on Start Quiz that pass the name check
MaxCalls == 2           \* calls of the teacher's handlers that reach an await

(* Program constants *)

DefaultMinutes == 10
SecondsPerMinute == 60
HoursPerDay == 24       \* 1000 * 60 * 60 * 24 ms; the clock of a history counts hours

----------------------------------------------------------------------------
(* Data *)

NoQuiz == [id |-> "null"]
NoResult == [id |-> "null"]
NoToast == "null"

\* parseInt(e.target.value) || 10 of the Duration input of the review form:
\* value is <<>> when parseInt gives NaN and <<n>> when it gives n; the right
\* operand replaces NaN and 0.
parsedOrDefault(value) ==
    IF value # <<>> /\ value[1] # 0 THEN value[1] ELSE DefaultMinutes

\* The documents of the "quizzes" collection.  questions[i] is the
\* correctIndex of question i and options[i] its number of options;
\* durationMinutes is <<>> when the document has no such field and <<n>> when
\* it holds n.  Quiz 4 was published with -1 typed into the Duration input.
quizDocs ==
    [q \in 1..4 |->
        CASE q = 1 -> [id |-> 1, questions |-> <<1, 0>>, options |-> <<2, 1>>,
                       durationMinutes |-> <<1>>]
          [] q = 2 -> [id |-> 2, questions |-> <<0>>, options |-> <<2>>,
                       durationMinutes |-> <<0>>]
          [] q = 3 -> [id |-> 3, questions |-> <<1>>, options |-> <<2>>,
                       durationMinutes |-> <<>>]
          [] q = 4 -> [id |-> 4, questions |-> <<0>>, options |-> <<1>>,
                       durationMinutes |-> <<parsedOrDefault(<<-1>>)>>]]

QuizIds == DOMAIN quizDocs

\* The quizzes whose time limit is short enough to follow tick by tick.
TimedQuizIds == {1}

\* The quizzes whose duration the teacher has edited.
EditedQuizIds == {4}

\* The names typed into the name input.
NameSet == {<<" ">>, <<" ", "a">>}

\* String.prototype.trim
RECURSIVE trimStart(_)
trimStart(s) ==
    IF s # <<>> /\ Head(s) = " " THEN trimStart(Tail(s)) ELSE s

RECURSIVE trimEnd(_)
trimEnd(s) ==
    IF s # <<>> /\ s[Len(s)] = " " THEN trimEnd(SubSeq(s, 1, Len(s) - 1)) ELSE s

trim(s) == trimEnd(trimStart(s))

\* new Array(n).fill(-1)
filledArray(n) == [i \in 1..n |-> -1]

durationNoDefault(d) ==
    IF d # <<>> THEN d[1] ELSE 0

\* quiz.durationMinutes || 10 : the right operand replaces every falsy left
\* operand, that is an absent field and 0.
durationOrDefault(d) ==
    IF d # <<>> /\ d[1] # 0 THEN d[1] ELSE DefaultMinutes

initialTime(quiz) == durationOrDefault(quiz.durationMinutes) * SecondsPerMinute

scoreLoopFromSecond(questions, ans, i, score) ==
    Cardinality({j \in 2..Len(questions) : ans[j] = questions[j]})

\* The loop of submitQuiz:
\*   let score = 0;
\*   activeQuiz.questions.forEach((q, i) => { if (answers[i] === q.correctIndex) score++; });
RECURSIVE scoreLoop(_, _, _, _)
scoreLoop(questions, ans, i, score) ==
    IF i > Len(questions) THEN score
    ELSE scoreLoop(questions, ans, i + 1,
                   IF i <= Len(ans) /\ ans[i] = questions[i] THEN score + 1 ELSE score)

computeScoreAnswered(quiz, ans) ==
    Cardinality({i \in 1..Len(quiz.questions) : ans[i] # -1})

computeScore(quiz, ans) == scoreLoop(quiz.questions, ans, 1, 0)

resultDataNoTotal(quiz, name, ans, date, id, trigger) ==
    [id |-> id, quizId |-> quiz.id, studentName |-> name,
     score |-> computeScore(quiz, ans), total |-> 0, date |-> date,
     scored |-> ans, trigger |-> trigger]

\* const resultData = { quizId, studentName, score, total, date }, with the id
\* the store gives the document.  scored and trigger are history fields: the
\* answers the score was computed from, and what called submitQuiz.
resultData(quiz, name, ans, date, id, trigger) ==
    [id |-> id,
     quizId |-> quiz.id,
     studentName |-> name,
     score |-> computeScore(quiz, ans),
     total |-> Len(quiz.questions),
     date |-> date,
     scored |-> ans,
     trigger |-> trigger]

\* Date.now() never goes back: a read returns the last value read or a later one.
clockReads == now..MaxClock

----------------------------------------------------------------------------
(* Initial states *)

\* The teacher's state of a mounted App and a store nothing was added to.
NoTeacher ==
    /\ showAuth = FALSE
    /\ isAuthenticated = FALSE
    /\ isGenerating = FALSE
    /\ generatedQuiz = NoQuiz
    /\ prompt = <<>>
    /\ file = FALSE
    /\ noteTitle = <<>>
    /\ noteFile = FALSE
    /\ pendingCalls = {}
    /\ nextCall = 1
    /\ quizzesCollection = {}
    /\ notesCollection = {}
    /\ crashed = FALSE

\* No attempt begun, the store holding no Result.
NoAttempt ==
    /\ activeQuiz = NoQuiz
    /\ studentName = <<>>
    /\ answers = <<>>
    /\ currentResult = NoResult
    /\ timeLeft = 0
    /\ savedName = <<>>
    /\ pendingStarts = {}
    /\ pendingWrites = {}
    /\ resultsCollection = {}
    /\ quizStarts = [q \in QuizIds |-> 0]
    /\ now = 0
    /\ nextId = 1
    /\ session = 0
    /\ cancelled = FALSE
    /\ sessionT0 = 0
    /\ ticks = 0
    /\ manualClicks = 0

InitApp ==
    /\ view = "landing"
    /\ toast = NoToast
    /\ NoAttempt
    /\ NoTeacher

\* No leaderboard computed.
NoBoard ==
    /\ allResults = <<>>
    /\ leaderboardQuiz = <<>>
    /\ leaderboard = <<>>

\* No dashboard computed.
NoBadges ==
    /\ timeZone = <<>>
    /\ gamification = <<>>

\* The App mounted, the store holding the timed quizzes and no result.
Init ==
    /\ InitApp
    /\ quizzes = TimedQuizIds
    /\ scoreInput = <<>>
    /\ scoreOutput = <<>>
    /\ NoBoard
    /\ NoBadges

----------------------------------------------------------------------------
(* Actions *)

sessionVars == <<activeQuiz, answers, currentResult, timeLeft>>
uiVars == <<studentName, toast, savedName>>
storeVars == <<quizzes, resultsCollection, quizStarts, nextId>>
historyVars == <<session, cancelled, sessionT0, ticks, manualClicks>>
scoreVars == <<scoreInput, scoreOutput>>
boardVars == <<allResults, leaderboardQuiz, leaderboard>>
badgeVars == <<timeZone, gamification>>
teacherVars == <<showAuth, isAuthenticated, isGenerating, generatedQuiz, prompt, file,
                 noteTitle, noteFile, pendingCalls, nextCall, quizzesCollection,
                 notesCollection, crashed>>

\* The buttons of the student's views that only call setView: Student Portal
\* of the landing view, Back to Dashboard of the result view.
Navigate ==
    /\ \/ view = "landing" /\ view' = "student-dash"
       \/ view = "student-result" /\ currentResult # NoResult /\ activeQuiz # NoQuiz
          /\ view' = "student-dash"
    /\ UNCHANGED <<sessionVars, uiVars, pendingStarts, pendingWrites,
                   storeVars, now, historyVars, scoreVars,
                   boardVars, badgeVars, teacherVars>>

\* The views that render the Toast component.
rendersToast(v) ==
    v \in {"landing", "student-dash", "student-result",
           "teacher-dash", "teacher-create", "teacher-notes"}

\* The Toast's setTimeout(onClose, 3000): onClose is () => setToast(null).
ToastClose ==
    /\ toast # NoToast
    /\ rendersToast(view)
    /\ toast' = NoToast
    /\ UNCHANGED <<view, sessionVars, studentName, savedName, pendingStarts, pendingWrites,
                   storeVars, now, historyVars, scoreVars,
                   boardVars, badgeVars, teacherVars>>

\* The name input of the student dashboard.
SetStudentName(n) ==
    /\ view = "student-dash"
    /\ n # studentName
    /\ studentName' = n
    /\ UNCHANGED <<view, sessionVars, toast, savedName, pendingStarts, pendingWrites,
                   storeVars, now, historyVars, scoreVars,
                   boardVars, badgeVars, teacherVars>>

nameEmpty(name) == name = <<>>

\* if (!studentName.trim())
nameMissing(name) == trim(name) = <<>>

\* A click on Start Quiz: startQuiz(quiz) up to its return or to
\* await updateDoc(...).
StartQuiz(q) ==
    /\ view = "student-dash"
    /\ q \in quizzes
    /\ IF nameMissing(studentName)
       THEN /\ toast' = "Please enter your name first."
            /\ UNCHANGED pendingStarts
       ELSE /\ session = 0 /\ pendingStarts = {}
            /\ pendingStarts' = pendingStarts \cup {[quiz |-> q, name |-> studentName]}
            /\ UNCHANGED toast
    /\ UNCHANGED <<view, sessionVars, studentName, savedName, pendingWrites, storeVars,
                   now, historyVars, scoreVars,
                   boardVars, badgeVars, teacherVars>>

effectWritesWhenFinished(v, quiz, name, ans, t, date) ==
    IF v = "student-quiz" /\ t = 0 /\ quiz # NoQuiz /\ \A i \in 1..Len(ans) : ans[i] # -1
    THEN {resultData(quiz, name, ans, date, nextId, "auto")}
    ELSE {}

\* The timer effect, run after a render that changed timeLeft or view: with
\* view student-quiz, timeLeft 0 and an active quiz it calls submitQuiz, which
\* runs up to await addDoc(...).  The result is the set of writes the effect
\* issues when Date.now() returns date.
effectWrites(v, quiz, name, ans, t, date) ==
    IF v = "student-quiz" /\ t = 0 /\ quiz # NoQuiz
    THEN {resultData(quiz, name, ans, date, nextId, "auto")}
    ELSE {}

StartQuizResumeCountsAll(p, stored) ==
    /\ p \in pendingStarts
    /\ pendingStarts' = pendingStarts \ {p}
    /\ quizStarts' = IF stored THEN [q \in QuizIds |-> quizStarts[q] + 1] ELSE quizStarts
    /\ savedName' = p.name
    /\ activeQuiz' = quizDocs[p.quiz]
    /\ answers' = filledArray(Len(quizDocs[p.quiz].questions))
    /\ timeLeft' = initialTime(quizDocs[p.quiz])
    /\ view' = "student-quiz"
    /\ session' = session + 1
    /\ sessionT0' = timeLeft'
    /\ ticks' = 0
    /\ \E date \in clockReads :
          LET w == effectWrites(view', activeQuiz', studentName, answers', timeLeft', date)
          IN /\ pendingWrites' = pendingWrites \cup w
             /\ nextId' = nextId + Cardinality(w)
             /\ now' = IF w = {} THEN now ELSE date
    /\ UNCHANGED <<quizzes, studentName, toast, currentResult, resultsCollection,
                   cancelled, manualClicks, scoreVars, boardVars, badgeVars, teacherVars>>

\* The continuation of startQuiz after the await; stored tells whether
\* updateDoc incremented the counter or threw (the catch only logs).
StartQuizResume(p, stored) ==
    /\ p \in pendingStarts
    /\ pendingStarts' = pendingStarts \ {p}
    /\ quizStarts' = IF stored THEN [quizStarts EXCEPT ![p.quiz] = @ + 1] ELSE quizStarts
    /\ savedName' = p.name
    /\ activeQuiz' = quizDocs[p.quiz]
    /\ answers' = filledArray(Len(quizDocs[p.quiz].questions))
    /\ timeLeft' = initialTime(quizDocs[p.quiz])
    /\ view' = "student-quiz"
    /\ session' = session + 1
    /\ sessionT0' = timeLeft'
    /\ ticks' = 0
    /\ \E date \in clockReads :
          LET w == effectWrites(view', activeQuiz', studentName, answers', timeLeft', date)
          IN /\ pendingWrites' = pendingWrites \cup w
             /\ nextId' = nextId + Cardinality(w)
             /\ now' = IF w = {} THEN now ELSE date
    /\ UNCHANGED <<quizzes, studentName, toast, currentResult, resultsCollection,
                   cancelled, manualClicks, scoreVars,
                   boardVars, badgeVars, teacherVars>>

\* setTimeLeft(prev => prev <= 1 ? 0 : prev - 1)
tickUpdate(prev) == IF prev <= 1 THEN 0 ELSE prev - 1

TickLeaked ==
    /\ timeLeft > 0
    /\ timeLeft' = tickUpdate(timeLeft)
    /\ ticks' = ticks + 1
    /\ \E date \in clockReads :
          LET w == effectWrites(view, activeQuiz, studentName, answers, timeLeft', date)
          IN /\ pendingWrites' = pendingWrites \cup w
             /\ nextId' = nextId + Cardinality(w)
             /\ now' = IF w = {} THEN now ELSE date
    /\ UNCHANGED <<view, quizzes, activeQuiz, uiVars, answers, currentResult,
                   pendingStarts, resultsCollection, quizStarts, session,
                   cancelled, sessionT0, manualClicks, scoreVars,
                   boardVars, badgeVars, teacherVars>>

\* One firing of the interval the timer effect sets while the view is
\* student-quiz and timeLeft > 0, followed by the effect of the render it
\* causes.
Tick ==
    /\ view = "student-quiz"
    /\ timeLeft > 0
    /\ timeLeft' = tickUpdate(timeLeft)
    /\ ticks' = ticks + 1
    /\ \E date \in clockReads :
          LET w == effectWrites(view, activeQuiz, studentName, answers, timeLeft', date)
          IN /\ pendingWrites' = pendingWrites \cup w
             /\ nextId' = nextId + Cardinality(w)
             /\ now' = IF w = {} THEN now ELSE date
    /\ UNCHANGED <<view, quizzes, activeQuiz, uiVars, answers, currentResult,
                   pendingStarts, resultsCollection, quizStarts, session,
                   cancelled, sessionT0, manualClicks, scoreVars,
                   boardVars, badgeVars, teacherVars>>

selectAnswerToggle(ans, idx, optIdx) ==
    [ans EXCEPT ![idx] = IF @ = optIdx THEN -1 ELSE optIdx]

\* const n = [...answers]; n[idx] = optIdx; setAnswers(n);
selectAnswer(ans, idx, optIdx) == [ans EXCEPT ![idx] = optIdx]

\* A click on option optIdx (0-based) of question idx of the quiz view.
SelectAnswer(idx, optIdx) ==
    /\ view = "student-quiz"
    /\ activeQuiz # NoQuiz
    /\ idx \in 1..Len(activeQuiz.questions)
    /\ optIdx \in 0..(activeQuiz.options[idx] - 1)
    /\ answers' = selectAnswer(answers, idx, optIdx)
    /\ UNCHANGED <<view, activeQuiz, uiVars, currentResult, timeLeft,
                   pendingStarts, pendingWrites, storeVars, now, historyVars, scoreVars,
                   boardVars, badgeVars, teacherVars>>

\* The Submit Quiz button is disabled unless answers.every(a => a !== -1).
isFinished(ans) == \A i \in 1..Len(ans) : ans[i] # -1

\* A click on Submit Quiz: submitQuiz up to await addDoc(...).
SubmitQuizClick ==
    /\ view = "student-quiz"
    /\ activeQuiz # NoQuiz
    /\ isFinished(answers)
    /\ manualClicks < MaxManualClicks
    /\ manualClicks' = manualClicks + 1
    /\ \E date \in clockReads :
          /\ pendingWrites' = pendingWrites \cup
                {resultData(activeQuiz, studentName, answers, date, nextId, "manual")}
          /\ now' = date
    /\ nextId' = nextId + 1
    /\ UNCHANGED <<view, sessionVars, uiVars, pendingStarts, quizzes,
                   resultsCollection, quizStarts, session, cancelled,
                   sessionT0, ticks, scoreVars,
                   boardVars, badgeVars, teacherVars>>

\* addDoc resolves: the continuation of submitQuiz sets the current result
\* and shows the result view.
WriteSucceeds(w) ==
    /\ w \in pendingWrites
    /\ pendingWrites' = pendingWrites \ {w}
    /\ resultsCollection' = resultsCollection \cup {w}
    /\ currentResult' = w
    /\ view' = "student-result"
    /\ toast' = "Quiz submitted successfully!"
    /\ UNCHANGED <<activeQuiz, studentName, answers, timeLeft, savedName, pendingStarts,
                   quizzes, quizStarts, now, nextId, historyVars, scoreVars,
                   boardVars, badgeVars, teacherVars>>

\* addDoc rejects: the catch of submitQuiz only shows a toast.
WriteFails(w) ==
    /\ w \in pendingWrites
    /\ pendingWrites' = pendingWrites \ {w}
    /\ toast' = "Submission failed"
    /\ UNCHANGED <<view, sessionVars, studentName, savedName, pendingStarts, storeVars,
                   now, historyVars, scoreVars,
                   boardVars, badgeVars, teacherVars>>

\* The Header's onBack of the quiz view, confirmed:
\*   if (confirm("Quit? Progress lost.")) setView("student-dash");
Quit ==
    /\ view = "student-quiz"
    /\ activeQuiz # NoQuiz
    /\ view' = "student-dash"
    /\ cancelled' = TRUE
    /\ UNCHANGED <<sessionVars, uiVars, pendingStarts, pendingWrites,
                   storeVars, now, session, sessionT0, ticks, manualClicks, scoreVars,
                   boardVars, badgeVars, teacherVars>>

Next ==
    \/ Navigate
    \/ ToastClose
    \/ \E n \in NameSet : SetStudentName(n)
    \/ \E q \in QuizIds : StartQuiz(q)
    \/ \E p \in pendingStarts, stored \in BOOLEAN : StartQuizResume(p, stored)
    \/ Tick
    \/ \E idx \in 1..MaxQuestions, optIdx \in 0..MaxOption : SelectAnswer(idx, optIdx)
    \/ SubmitQuizClick
    \/ \E w \in pendingWrites : WriteSucceeds(w)
    \/ \E w \in pendingWrites : WriteFails(w)
    \/ Quit

Spec == Init /\ [][Next]_vars

----------------------------------------------------------------------------
(* The attempt, tick by tick, on the timed quizzes and on the quizzes      *)
(* whose duration was edited.                                              *)

InitTimer ==
    /\ InitApp
    /\ quizzes = TimedQuizIds \cup EditedQuizIds
    /\ scoreInput = <<>>
    /\ scoreOutput = <<>>
    /\ NoBoard
    /\ NoBadges

SpecTimer == InitTimer /\ [][Next]_vars

----------------------------------------------------------------------------
(* The attempt on every quiz of the store before the interval of the      *)
(* timer effect fires for the first time.                                  *)

InitStart ==
    /\ InitApp
    /\ quizzes = QuizIds
    /\ scoreInput = <<>>
    /\ scoreOutput = <<>>
    /\ NoBoard
    /\ NoBadges

NextStart ==
    \/ Navigate
    \/ ToastClose
    \/ \E n \in NameSet : SetStudentName(n)
    \/ \E q \in QuizIds : StartQuiz(q)
    \/ \E p \in pendingStarts, stored \in BOOLEAN : StartQuizResume(p, stored)
    \/ \E idx \in 1..MaxQuestions, optIdx \in 0..MaxOption : SelectAnswer(idx, optIdx)
    \/ SubmitQuizClick
    \/ \E w \in pendingWrites : WriteSucceeds(w)
    \/ \E w \in pendingWrites : WriteFails(w)
    \/ Quit

SpecStart == InitStart /\ [][NextStart]_vars

----------------------------------------------------------------------------
(* The attempts of a student who clicks Start Quiz again, while the first  *)
(* start is pending, after quitting, or from the dashboard after a result. *)

\* A later click on Start Quiz that passes the name check: startQuiz(quiz) up
\* to await updateDoc(...).
StartQuizAgain(q) ==
    /\ view = "student-dash"
    /\ q \in quizzes
    /\ ~nameMissing(studentName)
    /\ session + Cardinality(pendingStarts) \in 1..(MaxStarts - 1)
    /\ pendingStarts' = pendingStarts \cup {[quiz |-> q, name |-> studentName]}
    /\ UNCHANGED <<view, sessionVars, uiVars, pendingWrites, storeVars,
                   now, historyVars, scoreVars, boardVars, badgeVars, teacherVars>>

NextRetake ==
    \/ Navigate
    \/ ToastClose
    \/ \E n \in NameSet : SetStudentName(n)
    \/ \E q \in QuizIds : StartQuiz(q)
    \/ \E q \in QuizIds : StartQuizAgain(q)
    \/ \E p \in pendingStarts, stored \in BOOLEAN : StartQuizResume(p, stored)
    \/ \E idx \in 1..MaxQuestions, optIdx \in 0..MaxOption : SelectAnswer(idx, optIdx)
    \/ SubmitQuizClick
    \/ \E w \in pendingWrites : WriteSucceeds(w)
    \/ \E w \in pendingWrites : WriteFails(w)
    \/ Quit

SpecRetake == InitStart /\ [][NextRetake]_vars

----------------------------------------------------------------------------
(* The scoring loop of submitQuiz on every quiz of at most MaxQuestions    *)
(* questions and every answer set of its length.                           *)

AnswerSets(n) == [1..n -> -1..MaxOption]
QuestionSeqs(n) == [1..n -> 0..MaxOption]

InitScore ==
    /\ InitApp
    /\ quizzes = {}
    /\ \E n \in 0..MaxQuestions :
          \E qs \in QuestionSeqs(n), ans \in AnswerSets(n) :
              scoreInput = <<[id |-> 1, questions |-> qs], ans>>
    /\ scoreOutput = <<>>
    /\ NoBoard
    /\ NoBadges

Score ==
    /\ scoreOutput = <<>>
    /\ scoreOutput' = <<computeScore(scoreInput[1], scoreInput[2])>>
    /\ UNCHANGED <<view, sessionVars, uiVars, pendingStarts, pendingWrites, storeVars,
                   now, historyVars, scoreInput, boardVars, badgeVars, teacherVars>>

NextScore == Score

SpecScore == InitScore /\ [][NextScore]_vars

----------------------------------------------------------------------------
(* getLeaderboard on every snapshot of at most MaxResults Results of the   *)
(* quizzes of BoardQuizIds.                                                *)

\* The quizzes whose Results are in the snapshots.
BoardQuizIds == {2, 3}

\* The student names stored in the Results of the snapshots.
StoredNames == {<<"a">>, <<"A", " ">>, <<"b">>}

\* interface Result, without the document id: the Results a finalization of
\* quiz q can have written.
ResultsOfQuiz(q) ==
    [quizId : {q}, studentName : StoredNames,
     score : 0..Len(quizDocs[q].questions), total : {Len(quizDocs[q].questions)},
     date : 0..MaxDate]

\* query(collection(db, "results"), orderBy("date", "desc")): a snapshot is
\* ordered by date, latest first; Results of equal date come in any order.
orderedByDateDesc(rs) == \A i \in 1..(Len(rs) - 1) : rs[i].date >= rs[i + 1].date

\* String.prototype.toLowerCase on the letters of the names.
lowerChar(c) == IF c = "A" THEN "a" ELSE IF c = "B" THEN "b" ELSE c
toLowerCase(s) == [i \in 1..Len(s) |-> lowerChar(s[i])]

\* (a, b) => a.date - b.date
byDate(a, b) == a.date - b.date

byScoreAscending(a, b) ==
    IF a.score # b.score THEN a.score - b.score ELSE a.date - b.date

\* (a, b) => b.score !== a.score ? b.score - a.score : a.date - b.date
byScoreThenDate(a, b) ==
    IF b.score # a.score THEN b.score - a.score ELSE a.date - b.date

\* (a, b) => b.score - a.score
byScore(a, b) == b.score - a.score

\* The compare function named order, applied to a and b.
compare(order, a, b) ==
    CASE order = "byDate" -> byDate(a, b)
      [] order = "byScoreThenDate" -> byScoreThenDate(a, b)
      [] order = "byScore" -> byScore(a, b)

\* Array.prototype.sort(compare): a stable sort, so rs[i] goes behind the
\* elements that compare before it and the earlier elements that compare equal.
sortedPosition(rs, order, i) ==
    1 + Cardinality({j \in 1..Len(rs) :
                        \/ compare(order, rs[j], rs[i]) < 0
                        \/ compare(order, rs[j], rs[i]) = 0 /\ j < i})

sort(rs, order) ==
    [p \in 1..Len(rs) |->
        rs[CHOOSE i \in 1..Len(rs) : sortedPosition(rs, order, i) = p]]

dedupKeyNoTrim(r) == <<toLowerCase(r.studentName), r.score>>

\* `${r.studentName.trim().toLowerCase()}-${r.score}`: the text up to the
\* last "-" is the name and the digits behind it the score, so two keys are
\* equal exactly when the two components are.
dedupKey(r) == <<toLowerCase(trim(r.studentName)), r.score>>

\* A loop that keeps one Result of each name, whatever the scores.
RECURSIVE uniqueLoopByName(_, _, _, _)
uniqueLoopByName(quizResults, i, seen, uniqueResults) ==
    IF i > Len(quizResults) THEN uniqueResults
    ELSE IF dedupKey(quizResults[i])[1] \in seen
         THEN uniqueLoopByName(quizResults, i + 1, seen, uniqueResults)
         ELSE uniqueLoopByName(quizResults, i + 1, seen \cup {dedupKey(quizResults[i])[1]},
                               Append(uniqueResults, quizResults[i]))

\* quizResults.forEach(r => { if (!seen.has(key)) { seen.add(key); uniqueResults.push(r); } })
RECURSIVE uniqueLoop(_, _, _, _)
uniqueLoop(quizResults, i, seen, uniqueResults) ==
    IF i > Len(quizResults) THEN uniqueResults
    ELSE IF dedupKey(quizResults[i]) \in seen
         THEN uniqueLoop(quizResults, i + 1, seen, uniqueResults)
         ELSE uniqueLoop(quizResults, i + 1, seen \cup {dedupKey(quizResults[i])},
                         Append(uniqueResults, quizResults[i]))

\* A sort that is not stable: elements that compare equal come out reversed.
sortTiesReversed(rs, order) ==
    LET position(i) ==
            1 + Cardinality({j \in 1..Len(rs) :
                                \/ compare(order, rs[j], rs[i]) < 0
                                \/ compare(order, rs[j], rs[i]) = 0 /\ j > i})
    IN [p \in 1..Len(rs) |-> rs[CHOOSE i \in 1..Len(rs) : position(i) = p]]

getLeaderboardUnstable(results, quizId) ==
    LET quizResults == sort(SelectSeq(results, LAMBDA r : r.quizId = quizId), "byDate")
        uniqueResults == uniqueLoop(quizResults, 1, {}, <<>>)
    IN sortTiesReversed(uniqueResults, "byScoreThenDate")

\* getLeaderboard(quizId) on the snapshot results.
getLeaderboard(results, quizId) ==
    LET quizResults == sort(SelectSeq(results, LAMBDA r : r.quizId = quizId), "byDate")
        uniqueResults == uniqueLoop(quizResults, 1, {}, <<>>)
    IN sort(uniqueResults, "byScoreThenDate")

InitBoard ==
    /\ InitApp
    /\ quizzes = BoardQuizIds
    /\ scoreInput = <<>>
    /\ scoreOutput = <<>>
    /\ \E n \in 0..MaxResults :
          \E rs \in [1..n -> UNION {ResultsOfQuiz(q) : q \in BoardQuizIds}] :
              /\ orderedByDateDesc(rs)
              /\ allResults = rs
    /\ leaderboardQuiz = <<>>
    /\ leaderboard = <<>>
    /\ NoBadges

\* The rows of the teacher-leaderboard view of quiz q:
\*   getLeaderboard(leaderboardQuiz.id).map((r, i) => ...)
GetLeaderboard(q) ==
    /\ leaderboardQuiz' = <<q>>
    /\ leaderboard' = <<getLeaderboard(allResults, q)>>
    /\ UNCHANGED <<view, sessionVars, uiVars, pendingStarts, pendingWrites, storeVars,
                   now, historyVars, scoreVars, allResults, badgeVars, teacherVars>>

NextBoard == \E q \in BoardQuizIds : GetLeaderboard(q)

SpecBoard == InitBoard /\ [][NextBoard]_vars

----------------------------------------------------------------------------
(* The gamification helpers of the student dashboard.  Dates are counted   *)
(* in hours from local midnight of calendar day 0.                         *)

\* The local time zones: <<>> has a fixed offset; <<d, h>> changes its offset
\* at the end of calendar day d, which makes that day HoursPerDay + h hours
\* long (h = 1: the clocks go back one hour, h = -1: they go forward).
TimeZones == {<<>>} \cup {<<d, h>> : d \in 0..MaxDay, h \in {-1, 1}}

\* The time of local midnight at the start of calendar day d.
midnight(d) ==
    HoursPerDay * d + (IF timeZone # <<>> /\ d > timeZone[1] THEN timeZone[2] ELSE 0)

\* d.setHours(0, 0, 0, 0); d.getTime()
startOfDay(t) ==
    midnight(CHOOSE d \in 0..(MaxDay + 1) : midnight(d) <= t /\ t < midnight(d + 1))

\* yesterday.setDate(yesterday.getDate() - 1), on a Date at local midnight.
previousMidnight(t) ==
    midnight((CHOOSE d \in 0..(MaxDay + 1) : midnight(d) = t) - 1)

\* Math.ceil(a / b) for a >= 0
ceilDiv(a, b) == (a + b - 1) \div b

\* Math.abs
abs(x) == IF x < 0 THEN 0 - x ELSE x

\* r.studentName.toLowerCase() === studentName.toLowerCase()
sameNameIgnoringCase(r, name) == toLowerCase(r.studentName) = toLowerCase(name)

\* Array.from(new Set(...)).sort((a, b) => b - a)
descending(S) ==
    [p \in 1..Cardinality(S) |-> CHOOSE x \in S : Cardinality({y \in S : y > x}) = p - 1]

\* for (let i = 0; i < dates.length - 1; i++) { ... if (diffDays === 1) streak++; else break; }
RECURSIVE streakLoop(_, _, _)
streakLoop(dates, i, streak) ==
    IF i > Len(dates) - 1 THEN streak
    ELSE IF ceilDiv(abs(dates[i] - dates[i + 1]), HoursPerDay) = 1
         THEN streakLoop(dates, i + 1, streak + 1)
         ELSE streak

\* calculateStreak(studentName, allResults), new Date() being the time now.
calculateStreak(name, results) ==
    IF name = <<>> THEN 0
    ELSE LET myResults == SelectSeq(results, LAMBDA r : sameNameIgnoringCase(r, name))
             dates == descending({startOfDay(myResults[i].date) : i \in 1..Len(myResults)})
             today == startOfDay(now)
             yesterday == previousMidnight(today)
         IN IF Len(dates) = 0 THEN 0
            ELSE IF dates[1] # today /\ dates[1] # yesterday THEN 0
            ELSE streakLoop(dates, 1, 1)

hasGrammarMasterOfAnyone(name, results) ==
    \E i \in 1..Len(results) : results[i].score = results[i].total

\* hasGrammarMaster(studentName, allResults)
hasGrammarMaster(name, results) ==
    \E i \in 1..Len(results) :
        sameNameIgnoringCase(results[i], name) /\ results[i].score = results[i].total

\* sorted.findIndex(r => ...): the 0-based index of the first match, or -1
findIndex(rs, name) ==
    LET found == {i \in 1..Len(rs) : sameNameIgnoringCase(rs[i], name)}
    IN IF found = {} THEN -1
       ELSE (CHOOSE i \in found : \A j \in found : i <= j) - 1

\* A ranking built without sorting the Results of the quiz by date first.
sortedOfTop3Undated(quizId, results) ==
    LET quizResults == SelectSeq(results, LAMBDA r : r.quizId = quizId)
        uniqueResults == uniqueLoop(quizResults, 1, {}, <<>>)
    IN sort(uniqueResults, "byScore")

\* The array sorted of isTop3: the Results of the quiz sorted by date,
\* deduplicated, then sorted by score descending.
sortedOfTop3(quizId, results) ==
    LET quizResults == sort(SelectSeq(results, LAMBDA r : r.quizId = quizId), "byDate")
        uniqueResults == uniqueLoop(quizResults, 1, {}, <<>>)
    IN sort(uniqueResults, "byScore")

\* isTop3(studentName, quizId, allResults)
isTop3(name, quizId, results) ==
    LET index == findIndex(sortedOfTop3(quizId, results), name)
    IN index # -1 /\ index < 3

\* results.some(r => ... && isTop3(studentName, r.quizId, results))
hasAnyTop3(name, results) ==
    \E i \in 1..Len(results) :
        /\ sameNameIgnoringCase(results[i], name)
        /\ isTop3(name, results[i].quizId, results)

\* The render of the student dashboard: streak, hasMaster and hasAnyTop3 of
\* the name in the name input.
RenderDashboard ==
    /\ view = "student-dash"
    /\ gamification = <<>>
    /\ gamification' = <<[streak |-> calculateStreak(studentName, allResults),
                          hasMaster |-> hasGrammarMaster(studentName, allResults),
                          hasAnyTop3 |-> hasAnyTop3(studentName, allResults)]>>
    /\ UNCHANGED <<view, sessionVars, uiVars, pendingStarts, pendingWrites, storeVars,
                   now, historyVars, scoreVars, boardVars, timeZone, teacherVars>>

NextDashboard == RenderDashboard

\* The student dashboard shown with no attempt begun, at time t, name in the
\* name input.
InitDashboard(t, name) ==
    /\ view = "student-dash"
    /\ quizzes = BoardQuizIds
    /\ activeQuiz = NoQuiz
    /\ studentName = name
    /\ answers = <<>>
    /\ currentResult = NoResult
    /\ timeLeft = 0
    /\ toast = NoToast
    /\ savedName = <<>>
    /\ pendingStarts = {}
    /\ pendingWrites = {}
    /\ resultsCollection = {}
    /\ quizStarts = [q \in QuizIds |-> 0]
    /\ now = t
    /\ nextId = 1
    /\ session = 0
    /\ cancelled = FALSE
    /\ sessionT0 = 0
    /\ ticks = 0
    /\ manualClicks = 0
    /\ scoreInput = <<>>
    /\ scoreOutput = <<>>
    /\ leaderboardQuiz = <<>>
    /\ leaderboard = <<>>
    /\ gamification = <<>>
    /\ NoTeacher

----------------------------------------------------------------------------
(* calculateStreak on every history of at most MaxHistory Results, on      *)
(* calendar day MaxDay, in every time zone.                                *)

\* The names typed into the name input of the dashboard.
TypedNames == {<<>>, <<"A">>, <<"a", " ">>}

\* The Results of a history, all of one quiz: those of student "a" at local
\* midnight or at noon of a calendar day, those of student "b" at noon.
HistoryResults ==
    {[quizId |-> 2, studentName |-> x[1], score |-> 0, total |-> 1,
      date |-> midnight(d) + x[2]] :
        x \in {<<<<"a">>, 0>>, <<<<"a">>, HoursPerDay \div 2>>, <<<<"b">>, HoursPerDay \div 2>>},
        d \in 0..MaxDay}

\* The snapshot holding the Results of the set S, latest first.
RECURSIVE snapshotOf(_)
snapshotOf(S) ==
    IF S = {} THEN <<>>
    ELSE LET r == CHOOSE x \in S : \A y \in S : x.date >= y.date
         IN <<r>> \o snapshotOf(S \ {r})

InitStreak ==
    /\ timeZone \in TimeZones
    /\ \E name \in TypedNames :
          InitDashboard(midnight(MaxDay) + HoursPerDay \div 2, name)
    /\ \E S \in SUBSET HistoryResults :
          /\ Cardinality(S) <= MaxHistory
          /\ allResults = snapshotOf(S)

SpecStreak == InitStreak /\ [][NextDashboard]_vars

----------------------------------------------------------------------------
(* The badges of the dashboard on every history of at most MaxHistory      *)
(* Results written at different times.                                     *)

\* What the Results of a history hold beside their date: Results of quiz 2 of
\* four stored names, and Results of quiz 3 of two of them.
HistoryEntries ==
    [quizId : {2}, studentName : StoredNames \cup {<<"c">>},
     score : 0..Len(quizDocs[2].questions), total : {Len(quizDocs[2].questions)}]
    \cup
    [quizId : {3}, studentName : {<<"a">>, <<"A", " ">>},
     score : {0}, total : {Len(quizDocs[3].questions)}]

\* The snapshot of the Results es[1], es[2], ..., the first written last.
datedLatestFirst(es) ==
    [i \in 1..Len(es) |->
        [quizId |-> es[i].quizId, studentName |-> es[i].studentName,
         score |-> es[i].score, total |-> es[i].total, date |-> Len(es) - i]]

InitBadges ==
    /\ timeZone = <<>>
    /\ \E name \in TypedNames : InitDashboard(MaxHistory, name)
    /\ \E n \in 0..MaxHistory :
          \E es \in [1..n -> HistoryEntries] : allResults = datedLatestFirst(es)

SpecBadges == InitBadges /\ [][NextDashboard]_vars

----------------------------------------------------------------------------
(* The teacher's side of the App: the password dialog, the generation of a *)
(* quiz, its review and publication, the upload of notes and the deletion  *)
(* of documents.  Every handler that awaits is split at its await; the     *)
(* suspended calls are kept in pendingCalls, each with the state its       *)
(* closure captured.                                                       *)

\* The passwords typed into the dialog.
Passwords == {"admin", "guess"}

\* The topics, the titles of quizzes and the titles of notes.
Texts == {<<>>, <<"t">>}

\* The generator form and the notes form as the teacher fills them: a text
\* and whether a file is chosen.
PromptForms == {<<(<<>>), FALSE>>, <<(<<"t">>), FALSE>>, <<(<<>>), TRUE>>}
NoteForms == {<<(<<>>), FALSE>>, <<(<<"t">>), FALSE>>, <<(<<"t">>), TRUE>>}

\* The values of the Duration input: <<>> when parseInt gives NaN, <<n>> when
\* it gives n.
TypedDurations == {<<>>, <<0>>, <<-1>>}

\* What generateContent gives back: it throws, or it resolves with a response
\* whose text is empty, is not JSON, or is the JSON of an object.  title and
\* questions are <<>> when the object has no such property; questions is
\* otherwise <<list>>, the list holding the correctIndex of each question.
GenerationResponses ==
    {[kind |-> k, title |-> <<>>, questions |-> <<>>] : k \in {"throws", "empty", "notJson"}}
    \cup {[kind |-> "json", title |-> t, questions |-> q] :
             t \in Texts, q \in {<<>>, <<(<<0>>)>>}}

\* generateQuiz: JSON.parse(response.text) throws on text that is not JSON
\* and the catch rethrows; an empty text gives null; every parsed object
\* gives a Quiz with its title and its questions, whatever they are.  quiz
\* is <<>> for null (and when it throws) and <<quiz>> for a quiz.
generateQuiz(response, uuid) ==
    CASE response.kind \in {"throws", "notJson"} -> [threw |-> TRUE, quiz |-> <<>>]
      [] response.kind = "empty" -> [threw |-> FALSE, quiz |-> <<>>]
      [] response.kind = "json" ->
            [threw |-> FALSE,
             quiz |-> <<[id |-> uuid, title |-> response.title,
                         questions |-> response.questions,
                         durationMinutes |-> <<DefaultMinutes>>]>>]

\* The render of teacher-create maps over generatedQuiz.questions; when it
\* throws React unmounts the App, whose buttons are gone from then on.  The
\* calls already suspended still settle.
renderThrows(v, quiz) == v = "teacher-create" /\ quiz # NoQuiz /\ quiz.questions = <<>>

attemptVars == <<sessionVars, studentName, savedName, pendingStarts, pendingWrites,
                 resultsCollection, quizStarts, nextId, now, historyVars, scoreVars,
                 allResults, leaderboard, badgeVars>>
draftVars == <<prompt, file, noteTitle, noteFile>>
publishedVars == <<quizzesCollection, notesCollection>>

\* The Teacher card of the landing view and the close button of the dialog.
ToggleAuth ==
    /\ ~crashed
    /\ view = "landing"
    /\ showAuth' = ~showAuth
    /\ UNCHANGED <<view, quizzes, toast, leaderboardQuiz, attemptVars, isAuthenticated,
                   isGenerating, generatedQuiz, draftVars, pendingCalls, nextCall,
                   publishedVars, crashed>>

HandleAuthNoFlag(password) ==
    /\ ~crashed
    /\ view = "landing"
    /\ showAuth
    /\ IF password = "admin"
       THEN /\ view' = "teacher-dash"
            /\ showAuth' = FALSE
            /\ toast' = "Welcome, Teacher!"
            /\ UNCHANGED isAuthenticated
       ELSE /\ toast' = "Incorrect password. Hint: admin"
            /\ UNCHANGED <<view, showAuth, isAuthenticated>>
    /\ UNCHANGED <<quizzes, leaderboardQuiz, attemptVars, isGenerating, generatedQuiz,
                   draftVars, pendingCalls, nextCall, publishedVars, crashed>>

\* handleAuth, with the password typed into the dialog.
HandleAuth(password) ==
    /\ ~crashed
    /\ view = "landing"
    /\ showAuth
    /\ IF password = "admin"
       THEN /\ isAuthenticated' = TRUE
            /\ view' = "teacher-dash"
            /\ showAuth' = FALSE
            /\ toast' = "Welcome, Teacher!"
       ELSE /\ toast' = "Incorrect password. Hint: admin"
            /\ UNCHANGED <<view, showAuth, isAuthenticated>>
    /\ UNCHANGED <<quizzes, leaderboardQuiz, attemptVars, isGenerating, generatedQuiz,
                   draftVars, pendingCalls, nextCall, publishedVars, crashed>>

\* The buttons of the teacher's views that only call setView, and the
\* Leaderboard button of a quiz card.
NavigateTeacher ==
    /\ ~crashed
    /\ \/ /\ view = "teacher-dash"
          /\ view' \in {"landing", "teacher-notes", "teacher-create"}
          /\ UNCHANGED leaderboardQuiz
       \/ /\ view = "teacher-dash"
          /\ \E q \in quizzes : leaderboardQuiz' = <<q>>
          /\ view' = "teacher-leaderboard"
       \/ /\ view \in {"teacher-create", "teacher-notes", "teacher-leaderboard"}
          /\ view' = "teacher-dash"
          /\ UNCHANGED leaderboardQuiz
    /\ crashed' = renderThrows(view', generatedQuiz)
    /\ UNCHANGED <<quizzes, toast, attemptVars, showAuth, isAuthenticated, isGenerating,
                   generatedQuiz, draftVars, pendingCalls, nextCall, publishedVars>>

\* The prompt and the file input of the generator form.
SetPrompt(text, chosen) ==
    /\ ~crashed
    /\ view = "teacher-create"
    /\ generatedQuiz = NoQuiz
    /\ <<text, chosen>> # <<prompt, file>>
    /\ prompt' = text
    /\ file' = chosen
    /\ UNCHANGED <<view, quizzes, toast, leaderboardQuiz, attemptVars, showAuth,
                   isAuthenticated, isGenerating, generatedQuiz, noteTitle, noteFile,
                   pendingCalls, nextCall, publishedVars, crashed>>

\* A click on Generate Quiz: handleCreateQuiz up to its return or to
\* await generateQuiz(...).  The button is rendered while no quiz is under
\* review and disabled while isGenerating.
HandleCreateQuiz ==
    /\ ~crashed
    /\ view = "teacher-create"
    /\ generatedQuiz = NoQuiz
    /\ ~isGenerating
    /\ nextCall <= MaxCalls
    /\ IF ~isAuthenticated
       THEN UNCHANGED <<toast, isGenerating, pendingCalls, nextCall>>
       ELSE IF prompt = <<>> /\ ~file
       THEN /\ toast' = "Please provide a topic or upload a file."
            /\ UNCHANGED <<isGenerating, pendingCalls, nextCall>>
       ELSE /\ isGenerating' = TRUE
            /\ pendingCalls' = pendingCalls \cup {[op |-> "generate", call |-> nextCall]}
            /\ nextCall' = nextCall + 1
            /\ UNCHANGED toast
    /\ UNCHANGED <<view, quizzes, leaderboardQuiz, attemptVars, showAuth, isAuthenticated,
                   generatedQuiz, draftVars, publishedVars, crashed>>

\* The continuation of handleCreateQuiz when generateQuiz settles:
\*   if (quiz) setGeneratedQuiz(quiz);  catch: showToast;  finally: setIsGenerating(false)
GenerateReturns(c, response) ==
    /\ c \in pendingCalls
    /\ c.op = "generate"
    /\ pendingCalls' = pendingCalls \ {c}
    /\ LET returned == generateQuiz(response, c.call)
       IN /\ generatedQuiz' = IF returned.quiz # <<>> THEN returned.quiz[1] ELSE generatedQuiz
          /\ toast' = IF returned.threw THEN "Failed to generate quiz" ELSE toast
    /\ isGenerating' = FALSE
    /\ crashed' = (crashed \/ renderThrows(view, generatedQuiz'))
    /\ UNCHANGED <<view, quizzes, leaderboardQuiz, attemptVars, showAuth, isAuthenticated,
                   draftVars, nextCall, publishedVars>>

\* updateQuizField(field, value) for the Title and the Duration inputs of the
\* review form.
UpdateQuizField ==
    /\ ~crashed
    /\ view = "teacher-create"
    /\ generatedQuiz # NoQuiz
    /\ \/ \E value \in TypedDurations :
             generatedQuiz' = [generatedQuiz EXCEPT
                                  !.durationMinutes = <<parsedOrDefault(value)>>]
       \/ \E text \in Texts :
             generatedQuiz' = [generatedQuiz EXCEPT !.title = text]
    /\ generatedQuiz' # generatedQuiz
    /\ UNCHANGED <<view, quizzes, toast, leaderboardQuiz, attemptVars, showAuth,
                   isAuthenticated, isGenerating, draftVars, pendingCalls, nextCall,
                   publishedVars, crashed>>

\* The Discard button: setGeneratedQuiz(null).
Discard ==
    /\ ~crashed
    /\ view = "teacher-create"
    /\ generatedQuiz # NoQuiz
    /\ generatedQuiz' = NoQuiz
    /\ UNCHANGED <<view, quizzes, toast, leaderboardQuiz, attemptVars, showAuth,
                   isAuthenticated, isGenerating, draftVars, pendingCalls, nextCall,
                   publishedVars, crashed>>

\* A click on Publish: publishQuiz up to its return or to await addDoc(...),
\* which is handed the quiz of the render the click was made in.
PublishQuiz ==
    /\ ~crashed
    /\ view = "teacher-create"
    /\ generatedQuiz # NoQuiz
    /\ nextCall <= MaxCalls
    /\ IF ~isAuthenticated \/ generatedQuiz = NoQuiz
       THEN UNCHANGED <<pendingCalls, nextCall>>
       ELSE /\ pendingCalls' = pendingCalls \cup
                  {[op |-> "publish", call |-> nextCall, quiz |-> generatedQuiz]}
            /\ nextCall' = nextCall + 1
    /\ UNCHANGED <<view, quizzes, toast, leaderboardQuiz, attemptVars, showAuth,
                   isAuthenticated, isGenerating, generatedQuiz, draftVars,
                   publishedVars, crashed>>

\* addDoc resolves: the store holds a new document, made of the quiz without
\* its id, and the continuation of publishQuiz clears the form and shows the
\* dashboard.  doc is the id the store gives the document; generated is a
\* history field, the id of the generated quiz the document was made of.
PublishSucceeds(c) ==
    /\ c \in pendingCalls
    /\ c.op = "publish"
    /\ pendingCalls' = pendingCalls \ {c}
    /\ quizzesCollection' = quizzesCollection \cup
          {[doc |-> c.call, generated |-> c.quiz.id, title |-> c.quiz.title,
            questions |-> c.quiz.questions,
            durationMinutes |-> c.quiz.durationMinutes]}
    /\ generatedQuiz' = NoQuiz
    /\ prompt' = <<>>
    /\ file' = FALSE
    /\ view' = "teacher-dash"
    /\ toast' = "Quiz published successfully!"
    /\ crashed' = (crashed \/ renderThrows(view', generatedQuiz'))
    /\ UNCHANGED <<quizzes, leaderboardQuiz, attemptVars, showAuth, isAuthenticated,
                   isGenerating, noteTitle, noteFile, nextCall, notesCollection>>

\* addDoc rejects: the catch of publishQuiz only shows a toast.
PublishFails(c) ==
    /\ c \in pendingCalls
    /\ c.op = "publish"
    /\ pendingCalls' = pendingCalls \ {c}
    /\ toast' = "Publish failed"
    /\ UNCHANGED <<view, quizzes, leaderboardQuiz, attemptVars, showAuth, isAuthenticated,
                   isGenerating, generatedQuiz, draftVars, nextCall, publishedVars,
                   crashed>>

\* The title and the file input of the notes form.
SetNote(text, chosen) ==
    /\ ~crashed
    /\ view = "teacher-notes"
    /\ <<text, chosen>> # <<noteTitle, noteFile>>
    /\ noteTitle' = text
    /\ noteFile' = chosen
    /\ UNCHANGED <<view, quizzes, toast, leaderboardQuiz, attemptVars, showAuth,
                   isAuthenticated, isGenerating, generatedQuiz, prompt, file,
                   pendingCalls, nextCall, publishedVars, crashed>>

\* A click on Upload: handleUploadNote up to its return or to
\* await addDoc(...); reading the chosen file is part of the step.
HandleUploadNote ==
    /\ ~crashed
    /\ view = "teacher-notes"
    /\ nextCall <= MaxCalls
    /\ IF ~isAuthenticated
       THEN UNCHANGED <<toast, pendingCalls, nextCall>>
       ELSE IF noteTitle = <<>> \/ ~noteFile
       THEN /\ toast' = "Please provide a title and a file."
            /\ UNCHANGED <<pendingCalls, nextCall>>
       ELSE /\ pendingCalls' = pendingCalls \cup
                  {[op |-> "upload", call |-> nextCall, title |-> noteTitle]}
            /\ nextCall' = nextCall + 1
            /\ UNCHANGED toast
    /\ UNCHANGED <<view, quizzes, leaderboardQuiz, attemptVars, showAuth, isAuthenticated,
                   isGenerating, generatedQuiz, draftVars, publishedVars, crashed>>

\* addDoc of handleUploadNote settles; stored tells whether it resolved.
UploadReturns(c, stored) ==
    /\ c \in pendingCalls
    /\ c.op = "upload"
    /\ pendingCalls' = pendingCalls \ {c}
    /\ IF stored
       THEN /\ notesCollection' = notesCollection \cup {[doc |-> c.call, title |-> c.title]}
            /\ noteTitle' = <<>>
            /\ noteFile' = FALSE
            /\ toast' = "Material uploaded successfully!"
       ELSE /\ toast' = "Upload failed"
            /\ UNCHANGED <<notesCollection, noteTitle, noteFile>>
    /\ UNCHANGED <<view, quizzes, leaderboardQuiz, attemptVars, showAuth, isAuthenticated,
                   isGenerating, generatedQuiz, prompt, file, nextCall,
                   quizzesCollection, crashed>>

\* The ids of the documents the teacher can delete: the quizzes delivered and
\* the notes uploaded.
DocIds == QuizIds \cup 1..MaxCalls

\* A click on Delete, confirmed: deleteItem(collectionName, id) up to its
\* return or to await deleteDoc(...).  The button is on the quiz cards of the
\* dashboard and on the rows of the notes view.
DeleteItem(collectionName, id) ==
    /\ ~crashed
    /\ \/ view = "teacher-dash" /\ collectionName = "quizzes" /\ id \in quizzes
       \/ /\ view = "teacher-notes" /\ collectionName = "notes"
          /\ \E n \in notesCollection : n.doc = id
    /\ nextCall <= MaxCalls
    /\ IF ~isAuthenticated
       THEN UNCHANGED <<pendingCalls, nextCall>>
       ELSE /\ pendingCalls' = pendingCalls \cup
                  {[op |-> "delete", call |-> nextCall,
                    collectionName |-> collectionName, id |-> id]}
            /\ nextCall' = nextCall + 1
    /\ UNCHANGED <<view, quizzes, toast, leaderboardQuiz, attemptVars, showAuth,
                   isAuthenticated, isGenerating, generatedQuiz, draftVars,
                   publishedVars, crashed>>

\* deleteDoc settles; deleted tells whether it resolved.  The store then
\* delivers the collection without the document.
DeleteReturns(c, deleted) ==
    /\ c \in pendingCalls
    /\ c.op = "delete"
    /\ pendingCalls' = pendingCalls \ {c}
    /\ IF deleted
       THEN /\ quizzes' = IF c.collectionName = "quizzes" THEN quizzes \ {c.id} ELSE quizzes
            /\ notesCollection' = IF c.collectionName = "notes"
                                  THEN {n \in notesCollection : n.doc # c.id}
                                  ELSE notesCollection
            /\ toast' = "Item deleted."
       ELSE /\ toast' = "Delete failed."
            /\ UNCHANGED <<quizzes, notesCollection>>
    /\ UNCHANGED <<view, leaderboardQuiz, attemptVars, showAuth, isAuthenticated,
                   isGenerating, generatedQuiz, draftVars, nextCall, quizzesCollection,
                   crashed>>

NextTeacher ==
    \/ ToastClose
    \/ ToggleAuth
    \/ \E password \in Passwords : HandleAuth(password)
    \/ NavigateTeacher
    \/ \E form \in PromptForms : SetPrompt(form[1], form[2])
    \/ HandleCreateQuiz
    \/ \E c \in pendingCalls, response \in GenerationResponses : GenerateReturns(c, response)
    \/ UpdateQuizField
    \/ Discard
    \/ PublishQuiz
    \/ \E c \in pendingCalls : PublishSucceeds(c)
    \/ \E c \in pendingCalls : PublishFails(c)
    \/ \E form \in NoteForms : SetNote(form[1], form[2])
    \/ HandleUploadNote
    \/ \E c \in pendingCalls, stored \in BOOLEAN : UploadReturns(c, stored)
    \/ \E collectionName \in {"quizzes", "notes"}, id \in DocIds :
          DeleteItem(collectionName, id)
    \/ \E c \in pendingCalls, deleted \in BOOLEAN : DeleteReturns(c, deleted)

SpecTeacher == Init /\ [][NextTeacher]_vars

----------------------------------------------------------------------------
(* The review of a generated quiz: the teacher has entered the password,   *)
(* typed a topic and generated a quiz, which is under review.              *)

InitReview ==
    /\ view = "teacher-create"
    /\ toast = NoToast
    /\ NoAttempt
    /\ quizzes = TimedQuizIds
    /\ scoreInput = <<>>
    /\ scoreOutput = <<>>
    /\ NoBoard
    /\ NoBadges
    /\ showAuth = FALSE
    /\ isAuthenticated = TRUE
    /\ isGenerating = FALSE
    /\ generatedQuiz = generateQuiz([kind |-> "json", title |-> <<"t">>,
                                     questions |-> <<(<<0>>)>>], 0).quiz[1]
    /\ prompt = <<"t">>
    /\ file = FALSE
    /\ noteTitle = <<>>
    /\ noteFile = FALSE
    /\ pendingCalls = {}
    /\ nextCall = 1
    /\ quizzesCollection = {}
    /\ notesCollection = {}
    /\ crashed = FALSE

SpecReview == InitReview /\ [][NextTeacher]_vars

----------------------------------------------------------------------------
(* Properties of the attempt *)

\* The Results the attempt has produced or is producing.
issuedResults == pendingWrites \cup resultsCollection

\* The number of indices i with ans[i] equal to the correctIndex of question i.
correctCount(questions, ans) ==
    Cardinality({i \in 1..Len(questions) : ans[i] = questions[i]})

\* C1: each started attempt yields at most one persisted Result: whatever the
\* interleaving of Submit clicks, the timer reaching 0 and pending writes, the
\* results collection holds at most one Result of the attempt.
C1_AtMostOneResult == Cardinality(resultsCollection) <= 1

\* C2: after the attempt was cancelled (Quit confirmed) no Result of it is
\* written or set as the current result, and the view does not move to
\* student-result.
C2_NoResultAfterCancel ==
    cancelled => /\ resultsCollection = {}
                 /\ currentResult = NoResult
                 /\ view # "student-result"

\* A step in which the remaining time reaches 0.
expires == timeLeft > 0 /\ timeLeft' = 0 /\ session' = session

C3_Countdown == session = 1 => timeLeft = sessionT0 - ticks

C3_Expiry ==
    expires =>
        /\ ticks' = sessionT0
        /\ \E w \in pendingWrites' \ pendingWrites :
              /\ w.scored = answers
              /\ w.score = correctCount(activeQuiz.questions, answers)

C3_Finished ==
    (view = "student-result" /\ ~cancelled /\ manualClicks = 0) =>
        /\ timeLeft = 0
        /\ ticks = sessionT0
        /\ currentResult \in resultsCollection
        /\ currentResult.score = correctCount(activeQuiz.questions, currentResult.scored)
        /\ (currentResult.scored = filledArray(Len(activeQuiz.questions))
               => currentResult.score = 0)

C3_Persisted ==
    resultsCollection' # resultsCollection => view' = "student-result"

\* C3: the time limit is authoritative: the remaining time is the time set at
\* the start less the ticks, the tick that brings it to 0 (tick number T) issues
\* the write of a Result scored on the answers of that moment whatever number
\* of them is set, and when the write succeeds the view is student-result; an
\* attempt neither cancelled nor submitted by hand ends there with a Result
\* whose score is its number of correct answers, 0 when no answer was selected.
C3_TimeLimit ==
    /\ [](C3_Countdown /\ C3_Finished)
    /\ [][C3_Expiry /\ C3_Persisted]_vars

C3_ExpiredPartlyAnswered ==
    /\ view = "student-result" /\ ~cancelled /\ manualClicks = 0
    /\ ticks = SecondsPerMinute
    /\ currentResult.scored = <<1, -1>>
    /\ currentResult.score = 1

\* A name made of nothing but spaces.
isBlank(name) == \A i \in 1..Len(name) : name[i] = " "

nameErrorShown ==
    /\ toast' = "Please enter your name first."
    /\ toast # toast'

\* C4: startQuiz with a name that is empty or only whitespace fails: the step
\* that shows the name error leaves the view, the active quiz, the answers and
\* the remaining time as they were, starts no attempt and issues no write, and
\* no startQuiz call is suspended in a store update while the name is blank.
C4_BlankNameRejected ==
    /\ [][nameErrorShown =>
            /\ isBlank(studentName)
            /\ UNCHANGED <<view, sessionVars, studentName, savedName, pendingStarts,
                           pendingWrites, storeVars, session, ticks>>]_vars
    /\ [][isBlank(studentName) => pendingStarts' \subseteq pendingStarts]_vars

C4_WhitespaceNameRejected ==
    /\ view = "student-dash"
    /\ studentName = <<" ">>
    /\ toast = "Please enter your name first."
    /\ session = 0 /\ pendingStarts = {}

\* A step in which the continuation of startQuiz runs.
starts == session' # session

\* quiz.durationMinutes ?? 10
nullishMinutes(d) == IF d = <<>> THEN 10 ELSE d[1]

C6_TimerReleased ==
    [][/\ timeLeft' # timeLeft => (view = "student-quiz" \/ starts)
       /\ ticks' # ticks => (view = "student-quiz" \/ starts)
       /\ (\E w \in pendingWrites' \ pendingWrites : w.trigger = "auto")
             => (view = "student-quiz" /\ view' = "student-quiz")]_vars

C6_QuitWithTimeLeft ==
    /\ cancelled
    /\ view = "student-dash"
    /\ ticks > 0
    /\ timeLeft > 0

\* C7: the answer set is frozen at submission: the answers shown with the
\* Result in the result view are the answers that were scored.
C7_AnswersFrozen ==
    (view = "student-result" /\ currentResult # NoResult)
        => answers = currentResult.scored

\* A step that changes the answer set of the running attempt.
changesAnswers == answers' # answers /\ ~starts

\* C8: a selection is made in the quiz view only, sets one entry of the answer
\* set to an option of that question and changes nothing else (not the other
\* entries, the remaining time, the active quiz, the view, the current result,
\* the writes), and selecting the selected option again changes nothing.
C8_SelectFrame ==
    /\ [][changesAnswers =>
            /\ view = "student-quiz"
            /\ \E i \in 1..Len(answers) :
                  /\ answers'[i] \in 0..(activeQuiz.options[i] - 1)
                  /\ answers' = [answers EXCEPT ![i] = answers'[i]]
            /\ UNCHANGED <<view, activeQuiz, timeLeft, currentResult, uiVars,
                           pendingStarts, pendingWrites, storeVars, session>>]_vars
    /\ [](\A i \in 1..Len(answers) :
             answers[i] # -1 => selectAnswer(answers, i, answers[i]) = answers)

C8_OneEntrySelected ==
    /\ view = "student-quiz"
    /\ answers = <<-1, 0>>

\* C9: the score of submitQuiz is the number of indices i with answers[i]
\* equal to the correctIndex of question i, and an unanswered entry never
\* counts: the score is at most the number of answered entries.
C9_ScoreCountsMatches ==
    scoreOutput # <<>> =>
        LET questions == scoreInput[1].questions
            ans == scoreInput[2]
        IN /\ scoreOutput[1] = correctCount(questions, ans)
           /\ scoreOutput[1] <= Cardinality({i \in 1..Len(ans) : ans[i] # -1})

C9_ExampleScored ==
    /\ scoreInput[1].questions = <<1, 0, 2>>
    /\ scoreInput[2] = <<1, 0, -1>>
    /\ scoreOutput = <<2>>

C10_ResultShape ==
    \A r \in issuedResults \cup ({currentResult} \ {NoResult}) :
        /\ activeQuiz # NoQuiz
        /\ r.quizId = activeQuiz.id
        /\ r.total = Len(activeQuiz.questions)
        /\ r.score \in 0..r.total

C10_Finishes ==
    resultsCollection' # resultsCollection =>
        \E w \in pendingWrites :
            /\ resultsCollection' = resultsCollection \cup {w}
            /\ currentResult' = w
            /\ view' = "student-result"

\* C10: every Result of a finalization carries the id of the quiz of the
\* attempt, its number of questions as total and a score between 0 and total,
\* and a successful write makes it the current result and shows the result view.
C10_ResultOfAttempt == [](C10_ResultShape) /\ [][C10_Finishes]_vars

C10_ManualResultShown ==
    /\ view = "student-result"
    /\ currentResult \in resultsCollection
    /\ currentResult.trigger = "manual"
    /\ currentResult.score = 2
    /\ currentResult.total = 2

\* A step in which a pending write of a Result leaves without being stored.
writeFails ==
    /\ pendingWrites' # pendingWrites
    /\ pendingWrites' \subseteq pendingWrites
    /\ resultsCollection' = resultsCollection

\* C11: when the write of a Result fails the failure is put in the toast, no
\* write is issued in its place, the view, the active quiz, the answers, the
\* remaining time and the current result stay as they were, and an attempt
\* still in the quiz view can be finalized by hand: its Submit Quiz button is
\* enabled, also when the write that failed was the one issued at time 0 with
\* unanswered questions.
C11_FailedWriteRecoverable ==
    [][writeFails =>
          /\ toast' = "Submission failed"
          /\ UNCHANGED <<view, sessionVars, studentName, storeVars, session>>
          /\ (view' = "student-quiz" => isFinished(answers'))]_vars

----------------------------------------------------------------------------
(* Properties of the leaderboard *)

\* The normalized name: trimmed and lower-cased.
normalized(name) == toLowerCase(trim(name))

\* The Results of the quiz of the leaderboard in the snapshot.
snapshotOfQuiz ==
    {allResults[i] : i \in {j \in 1..Len(allResults) :
                               allResults[j].quizId = leaderboardQuiz[1]}}

sameStudentAndScore(r, x) ==
    /\ normalized(x.studentName) = normalized(r.studentName)
    /\ x.score = r.score

\* C12: every row of the leaderboard is a Result of the quiz in the snapshot,
\* and among the Results of the snapshot that share the normalized student
\* name and the score exactly one is a row, one of the earliest date: every
\* later one is absent.
C12_EarliestSurvives ==
    leaderboard # <<>> =>
        LET rows == leaderboard[1]
        IN /\ \A i \in 1..Len(rows) : rows[i] \in snapshotOfQuiz
           /\ \A r \in snapshotOfQuiz :
                 LET kept == {i \in 1..Len(rows) : sameStudentAndScore(r, rows[i])}
                 IN /\ Cardinality(kept) = 1
                    /\ \A i \in kept : \A x \in snapshotOfQuiz :
                          sameStudentAndScore(r, x) => rows[i].date <= x.date

C12_RepeatCollapsed ==
    /\ allResults =
          <<[quizId |-> 2, studentName |-> <<"A", " ">>, score |-> 1, total |-> 1, date |-> 1],
            [quizId |-> 2, studentName |-> <<"a">>, score |-> 1, total |-> 1, date |-> 0]>>
    /\ leaderboardQuiz = <<2>>
    /\ leaderboard =
          <<<<[quizId |-> 2, studentName |-> <<"a">>, score |-> 1, total |-> 1, date |-> 0]>>>>

\* C13: the rows are ordered by score descending and, among equal scores, by
\* date ascending: each row has a greater score than the next one, or the same
\* score and a date not later; the rank shown is the position of the row.
C13_RankOrder ==
    leaderboard # <<>> =>
        LET rows == leaderboard[1]
        IN \A r \in 1..(Len(rows) - 1) :
              \/ rows[r].score > rows[r + 1].score
              \/ rows[r].score = rows[r + 1].score /\ rows[r].date <= rows[r + 1].date

C13_ThreeRanks ==
    /\ leaderboardQuiz = <<3>>
    /\ leaderboard # <<>>
    /\ Len(leaderboard[1]) = 3
    /\ leaderboard[1][1].score = 1 /\ leaderboard[1][1].date = 1
    /\ leaderboard[1][2].score = 0 /\ leaderboard[1][2].date = 0
    /\ leaderboard[1][3].score = 0 /\ leaderboard[1][3].date = 1

\* C14: getLeaderboard applied to its own rows returns the same rows in the
\* same order; it leaves the snapshot as it was, and a second run for the same
\* quiz returns the rows of the first.
C14_Idempotent ==
    /\ [](leaderboard # <<>> =>
            getLeaderboard(leaderboard[1], leaderboardQuiz[1]) = leaderboard[1])
    /\ [][/\ allResults' = allResults
          /\ (leaderboard # <<>> /\ leaderboardQuiz' = leaderboardQuiz)
                => leaderboard' = leaderboard]_vars

C14_TiedRowsKept ==
    /\ leaderboard # <<>>
    /\ Len(allResults) = 3
    /\ allResults[1].date > allResults[3].date
    /\ Len(leaderboard[1]) = 2
    /\ leaderboard[1][1].score = leaderboard[1][2].score
    /\ leaderboard[1][1].date = leaderboard[1][2].date

----------------------------------------------------------------------------
(* Properties of the gamification helpers *)

\* The local calendar day of a time.
calendarDay(t) == CHOOSE d \in 0..(MaxDay + 1) : midnight(d) <= t /\ t < midnight(d + 1)

\* The calendar days on which the student of the name input has a Result,
\* names compared without regard to letter case.
activeDays ==
    {calendarDay(allResults[i].date) :
        i \in {j \in 1..Len(allResults) : sameNameIgnoringCase(allResults[j], studentName)}}

\* The length of the run of consecutive days of the set days that ends at last.
runEndingAt(last, days) ==
    Cardinality({k \in 0..last : \A j \in 0..k : (last - j) \in days})

\* C15: the streak is 0 when the student has no Result or the most recent
\* active calendar day is neither today nor yesterday; otherwise it is the
\* length of the maximal run of consecutive calendar days that ends at the most
\* recent active day, each day counted once.
C15_StreakCountsDays ==
    gamification # <<>> =>
        gamification[1].streak =
            IF activeDays = {} THEN 0
            ELSE LET last == CHOOSE d \in activeDays : \A e \in activeDays : d >= e
                     today == calendarDay(now)
                 IN IF last # today /\ last # today - 1 THEN 0
                    ELSE runEndingAt(last, activeDays)

\* The quizzes with a Result in the snapshot.
quizzesOfSnapshot == {allResults[i].quizId : i \in 1..Len(allResults)}

\* The student of the name input has, by normalized name, a row among the
\* first three of the leaderboard of quiz q.
inFirstThreeRanks(q) ==
    LET rows == getLeaderboard(allResults, q)
    IN \E rank \in 1..3 :
          /\ rank <= Len(rows)
          /\ normalized(rows[rank].studentName) = normalized(studentName)

\* C16: the Top-3 badge is true exactly when some quiz has, at rank 1, 2 or 3
\* of its leaderboard, a row whose normalized name is the normalized name of
\* the student.
C16_Top3Badge ==
    gamification # <<>> =>
        (gamification[1].hasAnyTop3 <=> \E q \in quizzesOfSnapshot : inFirstThreeRanks(q))

\* C17: the streak and the badges computed for the name typed are those
\* computed for every stored name with the same normalized form.
C17_NormalizedIdentity ==
    gamification # <<>> =>
        \A i \in 1..Len(allResults) :
            normalized(allResults[i].studentName) = normalized(studentName) =>
                /\ gamification[1].streak =
                      calculateStreak(allResults[i].studentName, allResults)
                /\ gamification[1].hasMaster =
                      hasGrammarMaster(allResults[i].studentName, allResults)
                /\ gamification[1].hasAnyTop3 =
                      hasAnyTop3(allResults[i].studentName, allResults)

\* The Results of the student of the name input, names compared without
\* regard to letter case.
resultsOfStudent ==
    {allResults[i] :
        i \in {j \in 1..Len(allResults) : sameNameIgnoringCase(allResults[j], studentName)}}

----------------------------------------------------------------------------
(* Properties of the stored quizzes and of the score *)

\* C19 as stated: no operation of the student session writes to a stored quiz
\* record.
C19_QuizRecordsUntouched ==
    [][quizStarts' = quizStarts /\ quizzes' = quizzes]_vars

\* C19, amended: the student session adds, removes and rewrites no quiz, and
\* the quiz it holds is the stored document; its only write to a stored quiz
\* is that of startQuiz, which after the name check adds one to the starts
\* counter of the quiz being started and to no other.
C19_OnlyStartsCounted ==
    /\ [](activeQuiz # NoQuiz => activeQuiz = quizDocs[activeQuiz.id])
    /\ [][/\ quizzes' = quizzes
          /\ quizStarts' # quizStarts =>
                /\ starts
                /\ \E p \in pendingStarts :
                      /\ ~nameMissing(p.name)
                      /\ activeQuiz' = quizDocs[p.quiz]
                      /\ quizStarts' = [quizStarts EXCEPT ![p.quiz] = @ + 1]]_vars

C19_StartCounted ==
    /\ session = 1
    /\ activeQuiz # NoQuiz
    /\ activeQuiz.id = 3
    /\ quizStarts = <<0, 0, 1, 0>>

\* ans with the entries i and j exchanged.
swapped(ans, i, j) == [ans EXCEPT ![i] = ans[j], ![j] = ans[i]]

\* The number of the positions i and j at which ans matches the correctIndex.
matchesAt(questions, ans, i, j) == Cardinality({k \in {i, j} : ans[k] = questions[k]})

\* C20 as stated: exchanging two entries of the answer set of which exactly
\* one matches its question changes the score.
C20_SwapChangesScore ==
    scoreOutput # <<>> =>
        LET quiz == scoreInput[1]
            ans == scoreInput[2]
        IN \A i, j \in 1..Len(ans) :
              (i # j /\ matchesAt(quiz.questions, ans, i, j) = 1)
                  => computeScore(quiz, swapped(ans, i, j)) # scoreOutput[1]

\* C20, amended: exchanging the entries i and j changes the score by the
\* number of matches at i and j after the exchange less the number before it;
\* when exactly one of the two matched before, the score changes exactly when
\* the exchanged answers match at neither or at both of the positions.
C20_SwapMovesMatches ==
    scoreOutput # <<>> =>
        LET quiz == scoreInput[1]
            ans == scoreInput[2]
        IN \A i, j \in 1..Len(ans) :
              i # j =>
                 LET before == matchesAt(quiz.questions, ans, i, j)
                     after == matchesAt(quiz.questions, swapped(ans, i, j), i, j)
                     score == computeScore(quiz, swapped(ans, i, j))
                 IN /\ score = scoreOutput[1] - before + after
                    /\ before = 1 => (score # scoreOutput[1] <=> after # 1)

C20_SwapLosesMatch ==
    /\ scoreInput[1].questions = <<1, 0>>
    /\ scoreInput[2] = <<1, 2>>
    /\ scoreOutput = <<1>>
    /\ computeScore(scoreInput[1], swapped(scoreInput[2], 1, 2)) = 0

----------------------------------------------------------------------------
(* Properties of the teacher's side *)

\* The generation call failed, or its response lacks a title or a list of
\* questions.
failedOrMalformed(response) ==
    \/ response.kind \in {"throws", "notJson", "empty"}
    \/ response.title = <<>>
    \/ response.questions = <<>>

\* C21: a failed or malformed generation yields no accepted quiz: when the
\* generation call fails or its response lacks the title or the questions,
\* the continuation of handleCreateQuiz leaves generatedQuiz unset, shows the
\* error toast and resets isGenerating, so that nothing of the attempt is
\* under review and nothing of it can be published.
C21_MalformedGenerationRejected ==
    [][\A c \in pendingCalls, response \in GenerationResponses :
          GenerateReturns(c, response) /\ failedOrMalformed(response) =>
              /\ generatedQuiz' = NoQuiz
              /\ toast' = "Failed to generate quiz"
              /\ isGenerating' = FALSE]_vars

\* C22: one generated quiz is published at most once: whatever the
\* interleaving of clicks on Publish and of pending writes, the quizzes
\* collection holds at most one document made of it; and a write that fails
\* leaves the generated quiz and the view as they were.
C22_PublishedOnce ==
    /\ [](\A d1, d2 \in quizzesCollection : d1.generated = d2.generated => d1 = d2)
    /\ [][\A c \in pendingCalls :
             PublishFails(c) => generatedQuiz' = generatedQuiz /\ view' = view]_vars

----------------------------------------------------------------------------
(* Properties of repeated attempts *)

\* The result view is rendered.
resultShown == view = "student-result" /\ currentResult # NoResult /\ activeQuiz # NoQuiz

\* C23: whenever the result view is shown, the current Result is a Result of
\* the active quiz and the answers displayed are those of the same attempt:
\* currentResult.quizId is the id of activeQuiz, and currentResult.total is
\* the number of questions of activeQuiz and the length of answers.
C23_ResultOfActiveQuiz ==
    resultShown =>
        /\ currentResult.quizId = activeQuiz.id
        /\ currentResult.total = Len(activeQuiz.questions)
        /\ currentResult.total = Len(answers)

\* C24: every Result written to the store has a studentName that is neither
\* empty nor only whitespace, whatever the name input does while startQuiz
\* is suspended.
C24_StoredNameNotBlank ==
    \A r \in resultsCollection : ~isBlank(r.studentName)

\* The session is Active: the quiz view is rendered.
active == view = "student-quiz" /\ activeQuiz # NoQuiz

\* C25: in every state of an Active session the remaining time is an integer
\* between 0 and the value set by startQuiz; within a session it never
\* increases and a tick lowers it by exactly 1; this for every durationMinutes
\* the Duration input can store.  (That the session then reaches 0 follows
\* from these as long as the interval fires.)
C25_RemainingTimeInRange ==
    /\ [](active => 0 <= timeLeft /\ timeLeft <= sessionT0)
    /\ [][active /\ session' = session =>
             /\ timeLeft' <= timeLeft
             /\ ticks' # ticks => timeLeft' = timeLeft - 1]_vars

----------------------------------------------------------------------------
(* Properties of the leaderboard as a function of the snapshot *)

\* The orders in which the store can deliver the Results of rs: their
\* permutations that are ordered by date, latest first.
deliveries(rs) ==
    {d \in {[i \in 1..Len(rs) |-> rs[p[i]]] :
               p \in {f \in [1..Len(rs) -> 1..Len(rs)] :
                         \A i, j \in 1..Len(rs) : i # j => f[i] # f[j]}} :
        orderedByDateDesc(d)}

\* C26: the leaderboard of a quiz depends on the set of Results only:
\* getLeaderboard returns the same rows in the same order for every order in
\* which the same Results are delivered, equal dates included.
C26_DeliveryOrderIrrelevant ==
    leaderboard # <<>> =>
        \A rs \in deliveries(allResults) :
            getLeaderboard(rs, leaderboardQuiz[1]) = leaderboard[1]

\* The pairs of normalized student name and score among the Results of the
\* quiz of the leaderboard.
pairsOfQuiz == {<<normalized(r.studentName), r.score>> : r \in snapshotOfQuiz}

\* C27: the rows of the leaderboard of a quiz are Results of that quiz taken
\* from the snapshot, one row for each pair of normalized student name and
\* score that occurs among them and no other row, so that there are as many
\* rows as pairs; when the snapshot holds one Result of the quiz, that Result
\* is the only row, at rank 1.
C27_OneRowPerPair ==
    leaderboard # <<>> =>
        LET rows == leaderboard[1]
        IN /\ \A i \in 1..Len(rows) : rows[i] \in snapshotOfQuiz
           /\ \A k \in pairsOfQuiz :
                 Cardinality({i \in 1..Len(rows) :
                    <<normalized(rows[i].studentName), rows[i].score>> = k}) = 1
           /\ Len(rows) = Cardinality(pairsOfQuiz)
           /\ \A r \in snapshotOfQuiz : snapshotOfQuiz = {r} => rows[1] = r

\* Three Results of a quiz, of three stored names, with two pairs.
C27_TwoPairsOfThree ==
    /\ leaderboard # <<>>
    /\ Len(allResults) = 3
    /\ Cardinality(snapshotOfQuiz) = 3
    /\ Cardinality({r.studentName : r \in snapshotOfQuiz}) = 3
    /\ Cardinality(pairsOfQuiz) = 2
    /\ Len(leaderboard[1]) = 2

\* C28: the ranking isTop3 builds for a quiz on a snapshot is, row for row,
\* the leaderboard getLeaderboard returns for that quiz on that snapshot.
C28_Top3RanksAreLeaderboardRanks ==
    leaderboard # <<>> =>
        sortedOfTop3(leaderboardQuiz[1], allResults) = leaderboard[1]

\* Two rows of equal score and different dates, ranked the same by both.
C28_TiedScoresSameRanks ==
    /\ leaderboard # <<>>
    /\ Len(leaderboard[1]) = 3
    /\ \E i \in 1..2 :
          /\ leaderboard[1][i].score = leaderboard[1][i + 1].score
          /\ leaderboard[1][i].date < leaderboard[1][i + 1].date
    /\ sortedOfTop3(leaderboardQuiz[1], allResults) = leaderboard[1]

\* getLeaderboard(quizId) of src/index.tsx on the snapshot results:
\*   results.filter(r => r.quizId === quizId).sort((a, b) => b.score - a.score)
getLeaderboardIndex(results, quizId) ==
    sort(SelectSeq(results, LAMBDA r : r.quizId = quizId), "byScore")

\* C29: on every snapshot, delivered latest first, and for every quiz, the
\* getLeaderboard of src/index.tsx returns the rows the getLeaderboard of
\* src/unnamed/part_000 returns, in the same order: no later duplicate of a
\* normalized name and score, and rows of equal score by earliest date.
C29_ImplementationsAgree ==
    leaderboard # <<>> =>
        getLeaderboardIndex(allResults, leaderboardQuiz[1]) = leaderboard[1]

\* The views of the teacher.
TeacherViews == {"teacher-dash", "teacher-create", "teacher-notes", "teacher-leaderboard"}

\* C30: whenever the view is one of the teacher's views, isAuthenticated is
\* true; and a step in which handleCreateQuiz, publishQuiz, handleUploadNote
\* or deleteItem issues a generation call or a store write, or in which a
\* collection of the store changes, is a step taken while isAuthenticated is
\* true.
C30_TeacherOnlyAfterAuth ==
    /\ [](view \in TeacherViews => isAuthenticated)
    /\ [][(\/ pendingCalls' \ pendingCalls # {}
           \/ quizzesCollection' # quizzesCollection
           \/ notesCollection' # notesCollection) => isAuthenticated]_vars

\* The teacher is on the review form after a generation call, with a publish
\* write outstanding.
C30_AuthenticatedWriteIssued ==
    /\ view = "teacher-create"
    /\ isAuthenticated
    /\ generatedQuiz # NoQuiz
    /\ \E c \in pendingCalls : c.op = "publish"

====
